---- MODULE Spec2Model ----
(***************************************************************************)
(* Client-side session protocol of the dispatcher frontend                 *)
(* (src/dispatcher/src/frontend/static/js/controllers.js).                 *)
(*                                                                         *)
(* SpecUpload  : FileBrowserController's chunked upload (uploadFiles,      *)
(*               uploadToSocket, sendBlob and its FileReader callback).    *)
(* SpecBlob    : sendBlob called with arbitrary optStartByte/optStopByte.  *)
(* SpecEvents  : the controllers that subscribe to events in onLogin       *)
(*               (Events, Tasks): the session as in SpecSession, and       *)
(*               inbound events dispatched through the subscriptions to    *)
(*               sock.onEvent.                                             *)
(* SpecStats   : StatsController, which subscribes on every load_chart,    *)
(*               and the pulse events.                                     *)
(* SpecStream  : the controllers that open a shell or console (Term, VM):  *)
(*               the session as in SpecSession, the StreamSessions, their  *)
(*               terminals and the payloads in both directions.            *)
(* SpecFiles   : FileBrowserController's directory listing (listDir,       *)
(*               browseFolder, the #cdup handlers).                        *)
(* SpecSession : one controller and its DispatcherClient: connect, login,  *)
(*               calls and their responses, transport errors.  The         *)
(*               DispatcherClient itself (middleware.js) is not part of    *)
(*               the sources at hand; it is modelled from the written      *)
(*               specification (sections 4.1-4.4).                         *)
(***************************************************************************)
EXTENDS Integers, Naturals, Sequences, FiniteSets, TLC

VARIABLES
    \* ---- chunked upload (FileBrowserController) ----
    fileSize,    \* [Transfers -> Nat]: file.size of every entry of uploadFileList
    tstate,      \* [Transfers -> {"selected","opening","sending","finished"}]
    reads,       \* [Transfers -> Seq(read)]: FileReader reads issued and not yet ended
    sent,        \* [Transfers -> Seq(frame)]: what was handed to fileconn.send, in order
    readErrors,  \* [Transfers -> Nat]: reads of the transfer that ended with an error
    probe,       \* one sendBlob call on its own: [size, optStartByte, optStopByte,
                 \* called, reads]
    \* ---- the page: the routed controller and the browser around it ----
    ctrl,        \* the controller the route instantiates
    constructed, \* the controller function has run for the current route instance
    initDone,    \* $scope.init() has run
    handlers,    \* callback slots of sock the controller has assigned
    location,    \* "view": the controller's view; "login": redirected to /login...;
                 \* "next": LoginController navigated on after a successful login
    stored,      \* sessionStorage freenas:username/password: "none", "good" or "bad"
    typed,       \* $scope.username/$scope.password of the login form
    \* ---- sock, the DispatcherClient ----
    shist,       \* Seq([state, by]): the session states entered, the last is current
    token,       \* sock.token: "none" or "tok"
    pending,     \* Seq(PendingCall): [id, method, arg, cb]
    nextId,      \* next call id
    wire,        \* Seq(frame): frames put on the transport, in order
    subs,        \* Seq(pattern): local subscriptions of the Event Router
    shells,      \* Seq([target, state, onData, surfaced]): the StreamSessions
                 \* (ShellClient, ContainerConsoleClient) opened on sock
    \* ---- controller data ----
    services,    \* $scope.services (RpcController): [known, list], undefined at first
    temp_list,   \* the temp_list arrays created by RpcController.onLogin, by key
    service_dict,\* service_dict: service -> key of the temp_list it refers to
    item_list,   \* EventsController: the item_list array of the current onLogin
    scope_item_list, \* EventsController: $scope.item_list
    pending_tasks,   \* TasksController: $scope.pending_tasks, [known, list]
    chart,       \* StatsController: chart, "undefined" until render_chart
    title,       \* StatsController: $("#title").text()
    flows,       \* StatsController: the events update_chart handed to chart.flow
    thrown,      \* onEvent invocations that ended with a TypeError
    cwd,         \* FileBrowserController: sessionStorage filebrowser:cwd, a path
    current_dir_items, \* FileBrowserController: the path whose listing is shown
    cdup,        \* Seq(path): the click handlers the list_dir callbacks put on #cdup
    \* ---- terminals (TermController, VMController) ----
    terminals,   \* Seq([owner, sendsTo, attached, destroyed]): the Terminal objects
    conn,        \* VMController: var conn, a StreamSession or 0
    term,        \* VMController: var term, a Terminal or 0
    emitted,     \* Seq([term, data]): payloads the terminals emitted ('data')
    forwarded,   \* Seq([term, stream, data]): payloads sent on to the remote end
    received,    \* Seq([stream, data]): payloads that arrived from the remote end
    written,     \* Seq([stream, term, data]): term.write calls
    \* ---- inbound events ----
    arrived,     \* Seq([name, args]): the event frames that arrived, in order
    delivered,   \* Seq([name, args]): the invocations of sock.onEvent, in order
    \* ---- history, for the properties ----
    resolved,    \* {[frame, call, outcome, cb]}: the PendingCalls removed, each with
                 \* the id of the response frame that removed it and what the
                 \* client saw of the response
    removals,    \* number of PendingCall removals
    attempts,    \* sock.call/sock.subscribe invocations on the current sock
    rejected,    \* of these, the ones that failed with NotReadyError
    authFailed,  \* the last login attempt was refused and no new attempt was started
    reloads,     \* $route.reload() count
    clicks       \* user clicks handled

uploadVars == <<fileSize, tstate, reads, sent, readErrors, probe>>
pageVars == <<ctrl, constructed, initDone, handlers, location, stored, typed>>
sockVars == <<shist, token, pending, nextId, wire, subs, shells>>
fileVars == <<cwd, current_dir_items, cdup>>
dataVars == <<services, temp_list, service_dict, fileVars>>
eventVars == <<item_list, scope_item_list, pending_tasks, chart, title, flows,
               thrown, arrived, delivered>>
histVars == <<resolved, removals, attempts, rejected, authFailed, reloads, clicks>>
streamVars == <<terminals, conn, term, emitted, forwarded, received, written>>
sessionVars == <<pageVars, sockVars, dataVars, eventVars, streamVars, histVars>>
vars == <<uploadVars, sessionVars>>

-----------------------------------------------------------------------------
\* Bounds of the model
MaxFiles == 2          \* entries of $scope.uploadFileList
MaxHalves == 5         \* largest file is MaxHalves half-buffers long
MaxReadErrors == 1     \* failing FileReader reads per transfer
MaxCalls == 6          \* calls one DispatcherClient issues
MaxServices == 3       \* services discovery.get_services returns
MaxClicks == 2         \* user clicks
MaxReloads == 1        \* $route.reload() calls
MaxEvents == 2         \* inbound event frames
MaxStreams == 2        \* StreamSessions one DispatcherClient opens
MaxPayloads == 2       \* payloads typed into the terminals and sent by the remote end

\* Program constants
BUFSIZE == 1048576

\* An argument that was not passed (undefined): parseInt gives NaN for it
Undefined == -1

Transfers == 1..MaxFiles
HalfBuf == BUFSIZE \div 2
FileSizes == {0, 1, BUFSIZE - 1, BUFSIZE + 1} \cup {k * HalfBuf : k \in 1..MaxHalves}

NoServices == [known |-> FALSE, list |-> << >>]

\* $scope.pending_tasks before the first task.query result
NoTasks == [known |-> FALSE, list |-> << >>]

\* Paths are the sequences of their segments: "/" is << >>, "/root" is
\* <<"root">>. NoPath stands for no path at all (no item in sessionStorage, no
\* listing shown).
NoPath == <<"">>
FileIdle == cwd = NoPath /\ current_dir_items = NoPath /\ cdup = << >>
\* A new FileBrowserController and its view; sessionStorage stays
FileReset == current_dir_items' = NoPath /\ cdup' = << >> /\ UNCHANGED cwd

\* The controller's event data before anything was received
EventIdle ==
    /\ item_list = << >> /\ scope_item_list = << >> /\ pending_tasks = NoTasks
    /\ chart = "undefined" /\ title = "" /\ flows = << >> /\ thrown = 0
    /\ arrived = << >> /\ delivered = << >>
\* No terminal and no payload yet
StreamIdle ==
    /\ terminals = << >> /\ conn = 0 /\ term = 0
    /\ emitted = << >> /\ forwarded = << >> /\ received = << >> /\ written = << >>
StreamReset ==
    /\ terminals' = << >> /\ conn' = 0 /\ term' = 0
    /\ emitted' = << >> /\ forwarded' = << >> /\ received' = << >> /\ written' = << >>

EventReset ==
    /\ item_list' = << >> /\ scope_item_list' = << >> /\ pending_tasks' = NoTasks
    /\ chart' = "undefined" /\ title' = "" /\ flows' = << >> /\ thrown' = 0
    /\ arrived' = << >> /\ delivered' = << >>

Min(a, b) == IF a < b THEN a ELSE b
Max(a, b) == IF a > b THEN a ELSE b

-----------------------------------------------------------------------------
\* parseInt(x) || dflt for a non-negative integer or missing x: 0 and NaN are
\* falsy
ParseIntOr(x, dflt) == IF x = 0 \/ x = Undefined THEN dflt ELSE x

\* Blob.slice(start, stop) on a blob of `size` bytes: both ends are clamped to
\* the blob, and an empty range yields an empty blob. The result is its length.
Slice(size, start, stop) ==
    Max(0, Min(stop, size) - Min(start, size))

\* The byte range sendBlob computes from its optional arguments
BlobStart(optStartByte) == ParseIntOr(optStartByte, 0)

\* Mutant of BlobStop: the stop is taken as given
BlobStopUnclamped(size, optStopByte) == ParseIntOr(optStopByte, size)

BlobStop(size, optStopByte) ==
    LET stop == ParseIntOr(optStopByte, size)
    IN  IF stop > size THEN size ELSE stop

\* Mutant of NextStop: the next chunk ends where this one ended
NextStopStuck(size, stop) == stop

\* The stop argument of the recursive sendBlob call made by reader.onloadend
NextStop(size, stop) ==
    IF stop + BUFSIZE < size THEN stop + BUFSIZE ELSE size

\* Mutant of sendBlob: the next chunk's read is started together with this one
\* instead of from this one's onloadend (pipelined reads).
sendBlobPipelined(size, optStartByte, optStopByte) ==
    LET r == [start |-> BlobStart(optStartByte),
              stop  |-> BlobStop(size, optStopByte)]
    IN  IF r.stop < size
        THEN << r, [start |-> r.stop, stop |-> NextStop(size, r.stop)] >>
        ELSE << r >>

\* sendBlob(fileconn, file, optStartByte, optStopByte): the FileReader reads it
\* issues (one reader, one readAsArrayBuffer of file.slice(start, stop)).
sendBlob(size, optStartByte, optStopByte) ==
    << [start |-> BlobStart(optStartByte),
        stop  |-> BlobStop(size, optStopByte)] >>

\* Frames handed to fileconn.send
BufferFrame(size, r) ==
    [kind |-> "buffer", start |-> r.start, stop |-> r.stop,
     len |-> Slice(size, r.start, r.stop)]
NullFrame(r) == [kind |-> "null", start |-> r.start, stop |-> r.stop, len |-> 0]
EmptyString == [kind |-> "string", start |-> 0, stop |-> 0, len |-> 0]

\* evt.target.result at loadend: the ArrayBuffer read, or null after an error
ReadResult(size, r, ok) == IF ok THEN BufferFrame(size, r) ELSE NullFrame(r)

\* What reader.onloadend sends for a read that ended (readyState is DONE after
\* a success and after an error alike): the result, then "" once stop == file.size
OnLoadEndSends(size, r, ok) ==
    IF r.stop = size
    THEN << ReadResult(size, r, ok), EmptyString >>
    ELSE << ReadResult(size, r, ok) >>

\* Mutant of OnLoadEndReads: the next chunk starts one byte after stop (the
\* range taken as inclusive).
OnLoadEndReadsOffByOne(size, r) ==
    IF r.stop = size
    THEN << >>
    ELSE sendBlob(size, r.stop + 1, NextStop(size, r.stop))

\* The reads reader.onloadend issues through its recursive sendBlob call
OnLoadEndReads(size, r) ==
    IF r.stop = size
    THEN << >>
    ELSE sendBlob(size, r.stop, NextStop(size, r.stop))

RemoveAt(s, i) == [j \in 1..(Len(s) - 1) |-> IF j < i THEN s[j] ELSE s[j + 1]]

-----------------------------------------------------------------------------
\* The page before any controller is routed
SessionIdle ==
    /\ ctrl = "Login" /\ constructed = FALSE /\ initDone = FALSE
    /\ handlers = {} /\ location = "view" /\ stored = "none" /\ typed = "good"
    /\ shist = << [state |-> "Disconnected", by |-> "new"] >>
    /\ token = "none" /\ pending = << >> /\ nextId = 1 /\ wire = << >>
    /\ subs = << >> /\ shells = << >>
    /\ services = NoServices /\ temp_list = << >> /\ service_dict = << >>
    /\ FileIdle
    /\ EventIdle /\ StreamIdle
    /\ resolved = {} /\ removals = 0 /\ attempts = 0 /\ rejected = 0
    /\ authFailed = FALSE /\ reloads = 0 /\ clicks = 0

-----------------------------------------------------------------------------
\* $scope.uploadFiles: uploadFileList.map(uploadToSocket); every uploadToSocket
\* creates its own FileClient, installs onOpen/onData/onClose and calls
\* fileconn.upload(path, file.size, "777").
uploadFiles ==
    /\ \A t \in Transfers : tstate[t] = "selected"
    /\ tstate' = [t \in Transfers |-> "opening"]
    /\ UNCHANGED <<fileSize, reads, sent, readErrors, probe>>
    /\ UNCHANGED sessionVars

\* fileconn.onOpen: sendBlob(fileconn, file, 0, 0 + BUFSIZE)
fileconn_onOpen(t) ==
    /\ tstate[t] = "opening"
    /\ tstate' = [tstate EXCEPT ![t] = "sending"]
    /\ reads' = [reads EXCEPT ![t] = @ \o sendBlob(fileSize[t], 0, 0 + BUFSIZE)]
    /\ UNCHANGED <<fileSize, sent, readErrors, probe>>
    /\ UNCHANGED sessionVars

\* reader.onloadend of one outstanding read of transfer t
reader_onloadend(t) ==
    \E i \in 1..Len(reads[t]) : \E ok \in BOOLEAN :
        LET r == reads[t][i]
            frames == OnLoadEndSends(fileSize[t], r, ok)
        IN  /\ ok \/ readErrors[t] < MaxReadErrors
            /\ sent' = [sent EXCEPT ![t] = @ \o frames]
            /\ reads' = [reads EXCEPT
                           ![t] = RemoveAt(@, i) \o OnLoadEndReads(fileSize[t], r)]
            /\ readErrors' = [readErrors EXCEPT ![t] = IF ok THEN @ ELSE @ + 1]
            /\ tstate' = [tstate EXCEPT
                            ![t] = IF r.stop = fileSize[t] THEN "finished" ELSE @]
            /\ UNCHANGED <<fileSize, probe>>
            /\ UNCHANGED sessionVars

\* No sendBlob call on its own
NoProbe == [size |-> 0, optStartByte |-> 0, optStopByte |-> 0,
            called |-> FALSE, reads |-> << >>]

\* The upload state before any file is selected for upload
UploadIdle ==
    /\ probe = NoProbe
    /\ fileSize = [t \in Transfers |-> 0]
    /\ tstate = [t \in Transfers |-> "selected"]
    /\ reads = [t \in Transfers |-> << >>]
    /\ sent = [t \in Transfers |-> << >>]
    /\ readErrors = [t \in Transfers |-> 0]

UploadInit ==
    /\ fileSize \in [Transfers -> FileSizes]
    /\ tstate = [t \in Transfers |-> "selected"]
    /\ reads = [t \in Transfers |-> << >>]
    /\ sent = [t \in Transfers |-> << >>]
    /\ readErrors = [t \in Transfers |-> 0]
    /\ probe = NoProbe
    /\ SessionIdle

UploadNext ==
    \/ uploadFiles
    \/ \E t \in Transfers : fileconn_onOpen(t)
    \/ \E t \in Transfers : reader_onloadend(t)

SpecUpload == UploadInit /\ [][UploadNext]_vars

\* The upload with the FileReader's guarantee that every read it was given
\* ends with a loadend event. The transfers are alike, so the files are taken
\* in the order of their sizes.
UploadLiveInit ==
    /\ UploadInit
    /\ \A t, u \in Transfers : t < u => fileSize[t] <= fileSize[u]
UploadLiveNext == UploadNext
SpecUploadLive ==
    /\ UploadLiveInit /\ [][UploadLiveNext]_vars
    /\ \A t \in Transfers : WF_vars(reader_onloadend(t))

-----------------------------------------------------------------------------
\* sendBlob on its own, for every file size and every pair of arguments

\* Argument values: missing, zero, inside the file, its size, and beyond it
BlobArgs(size) ==
    {Undefined, 0, 1, size \div 2, size, size + 1, size + BUFSIZE}

\* sendBlob(fileconn, file, optStartByte, optStopByte)
sendBlob_call ==
    /\ ~probe.called
    /\ probe' = [probe EXCEPT
                   !.called = TRUE,
                   !.reads = sendBlob(probe.size, probe.optStartByte,
                                      probe.optStopByte)]
    /\ UNCHANGED <<fileSize, tstate, reads, sent, readErrors>>
    /\ UNCHANGED sessionVars

BlobInit ==
    /\ \E size \in FileSizes : \E a, b \in BlobArgs(size) :
          probe = [size |-> size, optStartByte |-> a, optStopByte |-> b,
                   called |-> FALSE, reads |-> << >>]
    /\ fileSize = [t \in Transfers |-> 0]
    /\ tstate = [t \in Transfers |-> "selected"]
    /\ reads = [t \in Transfers |-> << >>]
    /\ sent = [t \in Transfers |-> << >>]
    /\ readErrors = [t \in Transfers |-> 0]
    /\ SessionIdle

BlobNext == sendBlob_call

SpecBlob == BlobInit /\ [][BlobNext]_vars

-----------------------------------------------------------------------------
\* The controllers and where each assigns the callback slots of its sock

Controllers == {"Login", "Rpc", "Term", "Events", "Stats", "Tasks", "VM"}
AllSlots == {"onConnect", "onLogin", "onError"}

\* Slots assigned while the controller function runs
CtorHandlers(c) ==
    CASE c = "Events" -> AllSlots
      [] c = "Term" -> {"onConnect", "onLogin"}
      [] OTHER -> {}

\* Slots assigned by $scope.init (VMController assigns no onLogin)
InitHandlers(c) ==
    CASE c \in {"Rpc", "Stats", "Files"} -> AllSlots
      [] c = "Tasks" -> AllSlots \cup {"onEvent"}
      [] c = "VM" -> {"onConnect", "onError"}
      [] c = "Term" -> {"onError"}
      [] OTHER -> {}

\* Slots assigned by the controller's onLogin
OnLoginHandlers(c) == IF c \in {"Events", "Stats"} THEN {"onEvent"} ELSE {}

\* Controllers whose constructor calls sock.connect()
ConnectsInCtor(c) == c # "Login"

\* Controllers whose onConnect redirects to /login when no username is stored
OnConnectChecksUser(c) == c \in {"Term", "Events", "Stats", "Files", "Tasks", "VM"}

\* The credentials the controller's onConnect passes to sock.login
LoginCreds(c) == IF c = "Login" THEN typed ELSE stored

\* What the controller's onError does: "log", "toLogin" or "reload"
OnErrorDoes(c) ==
    CASE c = "Login" -> "log"
      [] c = "Rpc" -> "toLogin"
      [] OTHER -> "reload"

-----------------------------------------------------------------------------
\* DispatcherClient, after sections 4.1 (session), 4.3 (calls), 4.4 (events)

StateOf(h) == h[Len(h)].state
sstate == StateOf(shist)
Enter(h, st, why) == Append(h, [state |-> st, by |-> why])

\* sock as one value, threaded through the calls a handler makes
Client == [shist |-> shist, token |-> token, pending |-> pending,
           nextId |-> nextId, wire |-> wire, subs |-> subs, shells |-> shells,
           attempts |-> attempts, rejected |-> rejected]
Commit(cs) ==
    /\ shist' = cs.shist /\ token' = cs.token /\ pending' = cs.pending
    /\ nextId' = cs.nextId /\ wire' = cs.wire /\ subs' = cs.subs
    /\ shells' = cs.shells
    /\ attempts' = cs.attempts /\ rejected' = cs.rejected

\* new middleware.DispatcherClient(document.domain)
NewClient(cs) ==
    [cs EXCEPT !.shist = << [state |-> "Disconnected", by |-> "new"] >>,
               !.token = "none", !.pending = << >>, !.nextId = 1,
               !.wire = << >>, !.subs = << >>, !.shells = << >>,
               !.attempts = 0, !.rejected = 0]

\* Mutant of AllocId: the id is the size of the pending table plus one
AllocIdBySize(cs) == Len(cs.pending) + 1

\* A fresh call id
AllocId(cs) == cs.nextId

\* The registration of a call and its frame
Register(cs, method, arg, cb) ==
    [cs EXCEPT !.attempts = @ + 1,
               !.pending = Append(@, [id |-> AllocId(cs), method |-> method,
                                      arg |-> arg, cb |-> cb]),
               !.wire = Append(@, [kind |-> "call", id |-> AllocId(cs),
                                   method |-> method, arg |-> arg]),
               !.nextId = @ + 1]

\* Mutant of call: outside Ready the call is kept to be sent later
callQueued(cs, method, arg, cb) ==
    IF StateOf(cs.shist) # "Ready"
    THEN [cs EXCEPT !.attempts = @ + 1,
                    !.pending = Append(@, [id |-> AllocId(cs), method |-> method,
                                           arg |-> arg, cb |-> cb]),
                    !.nextId = @ + 1]
    ELSE Register(cs, method, arg, cb)

\* Mutant of call: no check of the session state
callUnchecked(cs, method, arg, cb) == Register(cs, method, arg, cb)

\* sock.call(method, args, callback): outside Ready it fails at once with
\* NotReadyError; in Ready it registers a PendingCall under a fresh id and
\* sends {id, method, args}
call(cs, method, arg, cb) ==
    IF StateOf(cs.shist) # "Ready"
    THEN [cs EXCEPT !.attempts = @ + 1, !.rejected = @ + 1]
    ELSE Register(cs, method, arg, cb)

\* Event names and patterns are the sequences of their dot-separated segments:
\* "task.*" is <<"task", "*">>

\* Mutant of Matches: * matches the rest of the name
MatchesGlob(pattern, name) ==
    /\ Len(pattern) <= Len(name)
    /\ \A i \in 1..Len(pattern) : pattern[i] \in {"*", name[i]}
    /\ Len(pattern) < Len(name) => pattern[Len(pattern)] = "*"

\* Segment-wise matching: as many segments, and every segment of the pattern
\* is * or equal to the name's
Matches(pattern, name) ==
    /\ Len(pattern) = Len(name)
    /\ \A i \in 1..Len(pattern) : pattern[i] \in {"*", name[i]}

\* The subscriptions an event name matches, one entry per subscription
MatchingSubs(ss, name) == SelectSeq(ss, LAMBDA p : Matches(p, name))

\* sock.subscribe(pattern): a control call without callback telling the server
\* the pattern, and the local subscription
subscribe(cs, pattern) ==
    LET c1 == call(cs, "subscribe", pattern, "none")
    IN  IF StateOf(cs.shist) # "Ready"
        THEN c1
        ELSE [c1 EXCEPT !.subs = Append(@, pattern)]

\* new middleware.ShellClient(client) and conn.connect(command): a StreamSession
\* to the target is being opened; like every operation it needs the session
\* Ready (NotReadyError otherwise) and it is no sock.call
ShellConnect(cs, target) ==
    IF StateOf(cs.shist) # "Ready"
    THEN cs
    ELSE [cs EXCEPT !.shells = Append(@, [target |-> target, state |-> "Opening",
                                          onData |-> 0, surfaced |-> FALSE])]

\* conn.disconnect(): the StreamSession is closed by its consumer
StreamDisconnect(ss, i) ==
    IF i \in 1..Len(ss) THEN [ss EXCEPT ![i].state = "Closed"] ELSE ss

\* The session was lost: every StreamSession is Closed and the closure is
\* surfaced to its consumer
StreamsLost(ss) ==
    [i \in 1..Len(ss) |->
        IF ss[i].state = "Closed" THEN ss[i]
        ELSE [ss[i] EXCEPT !.state = "Closed", !.surfaced = TRUE]]

\* Mutant of StreamSend: the payload is sent on whatever the session's state
StreamSendAlways(ss, i) == i \in 1..Len(ss)

\* conn.send(data): the payload is forwarded to the remote end when the
\* StreamSession is Open (StreamClosedError otherwise)
StreamSend(ss, i) == i \in 1..Len(ss) /\ ss[i].state = "Open"

\* sock.connect(): Disconnected -> Connecting; the state machine has no other
\* connect transition
connect(cs) ==
    IF StateOf(cs.shist) = "Disconnected"
    THEN [cs EXCEPT !.shist = Enter(@, "Connecting", "connect")]
    ELSE cs

\* The login handshake frame
LoginFrame(creds) == [kind |-> "login", id |-> 0, method |-> "auth", arg |-> creds]

\* The PendingCalls a response frame with this id matches
Matching(pend, id) == { i \in 1..Len(pend) : pend[i].id = id }

\* Removal of the i-th PendingCall
RemovePending(pend, i) ==
    [j \in 1..(Len(pend) - 1) |-> IF j < i THEN pend[j] ELSE pend[j + 1]]

-----------------------------------------------------------------------------
\* The server's answers

ServiceLists == { [i \in 1..n |-> i] : n \in 0..MaxServices }
MethodsOf(svc) == [k \in 1..svc |-> 10 * svc + k]

\* The login is accepted exactly for the good credentials
Accepted(creds) == creds = "good"

\* sock.login(username, password): the handshake goes on the transport and the
\* session awaits the answer
login(cs, creds) ==
    [cs EXCEPT !.shist = Enter(@, "Authenticating", "login"),
               !.wire = Append(@, LoginFrame(creds))]

-----------------------------------------------------------------------------
\* What the controllers do with their sock

\* Mutant of ControllerCtor: the login is sent right after sock.connect()
ControllerCtorEager(c, cs) ==
    IF ConnectsInCtor(c)
    THEN login(connect(NewClient(cs)), LoginCreds(c))
    ELSE NewClient(cs)

\* The controller function: a new DispatcherClient and, except in
\* LoginController, sock.connect()
ControllerCtor(c, cs) ==
    IF ConnectsInCtor(c) THEN connect(NewClient(cs)) ELSE NewClient(cs)

\* sock.onConnect of every controller: sock.login with the form's or the
\* stored credentials
onConnect(c, cs) == login(cs, LoginCreds(c))

\* refresh_tasks() of TasksController
refresh_tasks(cs) == call(cs, "task.query", 0, "tasks")

\* Mutant of abortTask: the abort also drops the outstanding task.submit calls
abortTaskCancels(cs, task_id) ==
    LET c1 == [cs EXCEPT !.pending = SelectSeq(@, LAMBDA p : p.method # "task.submit")]
    IN  refresh_tasks(call(c1, "task.abort", task_id, "ignored"))

\* $scope.abortTask(task_id) of TasksController once confirmed: a task.abort
\* call whose callback does nothing, then refresh_tasks()
abortTask(cs, task_id) ==
    refresh_tasks(call(cs, "task.abort", task_id, "ignored"))

\* connect_term(client, command) of TermController
connect_term(cs, command) == ShellConnect(cs, command)

\* pathJoin([cwd, name]) and path.substring(0, path.lastIndexOf("/"))
PathJoin(dir, name) == IF dir = NoPath THEN <<name>> ELSE Append(dir, name)
Parent(path) == SubSeq(path, 1, Len(path) - 1)

\* listDir(path) of FileBrowserController: a filesystem.list_dir call whose
\* callback shows the listing under this path
listDir(cs, path) == call(cs, "filesystem.list_dir", path, "listing")

\* Mutant of onLogin: LoginController's failure branch sends the login again
onLoginRetry(c, cs) ==
    CASE c = "Rpc" -> call(cs, "discovery.get_services", 0, "services")
      [] c = "Term" ->
            connect_term(call(cs, "shell.get_shells", 0, "view"), "/bin/sh")
      [] c = "Events" ->
            subscribe(subscribe(cs, <<"*", "changed">>), <<"migration", "status">>)
      [] c = "Stats" -> call(cs, "statd.output.get_data_sources", 0, "sources")
      [] c = "Files" -> listDir(cs, <<"root">>)
      [] c = "Tasks" ->
            call(refresh_tasks(subscribe(cs, <<"task", "*">>)),
                 "discovery.get_tasks", 0, "view")
      [] c = "Login" -> IF cs.token = "none" THEN login(cs, LoginCreds(c)) ELSE cs
      [] OTHER -> cs

\* sock.onLogin of each controller: the calls and subscriptions it issues
onLogin(c, cs) ==
    CASE c = "Rpc" -> call(cs, "discovery.get_services", 0, "services")
      [] c = "Term" ->
            connect_term(call(cs, "shell.get_shells", 0, "view"), "/bin/sh")
      [] c = "Events" ->
            subscribe(subscribe(cs, <<"*", "changed">>), <<"migration", "status">>)
      [] c = "Stats" -> call(cs, "statd.output.get_data_sources", 0, "sources")
      [] c = "Files" -> listDir(cs, <<"root">>)
      [] c = "Tasks" ->
            call(refresh_tasks(subscribe(cs, <<"task", "*">>)),
                 "discovery.get_tasks", 0, "view")
      [] OTHER -> cs

\* Mutant of OnLoginStored: the credentials are stored whatever the outcome
OnLoginStoredAlways(c, tok) == IF c = "Login" THEN typed ELSE stored

\* LoginController.onLogin: with a token the credentials are stored and the
\* view navigates on; without one the view stays
OnLoginStored(c, tok) == IF c = "Login" /\ tok # "none" THEN typed ELSE stored
OnLoginLocation(c, tok) == IF c = "Login" /\ tok # "none" THEN "next" ELSE location

\* Mutant of TempListKey: one temp_list shared by all services
TempListShared(svc) == 0

\* The temp_list array the get_methods callback of service svc closes over:
\* a new one for every service
TempListKey(svc) == svc

\* The discovery.get_services callback: one discovery.get_methods call per
\* service, in order
RECURSIVE GetMethodsCalls(_, _)
GetMethodsCalls(cs, svcs) ==
    IF svcs = << >>
    THEN cs
    ELSE GetMethodsCalls(call(cs, "discovery.get_methods", Head(svcs), "methods"),
                         Tail(svcs))

Range(f) == { f[x] : x \in DOMAIN f }
Ext(f, k, v) == [x \in DOMAIN f \cup {k} |-> IF x = k THEN v ELSE f[x]]

\* Mutant of CallbackCalls: the response to a call without callback makes the
\* task list be queried again
CallbackCallsOnDiscard(cb, cs, result) ==
    CASE cb = "services" -> GetMethodsCalls(cs, result)
      [] cb = "submitted" -> refresh_tasks(cs)
      [] cb = "none" -> refresh_tasks(cs)
      [] OTHER -> cs

\* The calls a callback issues when it receives a result
CallbackCalls(cb, cs, result) ==
    CASE cb = "services" -> GetMethodsCalls(cs, result)
      [] cb = "submitted" -> refresh_tasks(cs)
      [] OTHER -> cs

\* $scope.service_dict[s] as the view reads it
ServiceDictView(s) == temp_list[service_dict[s]]

-----------------------------------------------------------------------------
\* Actions of the session

\* The route instantiates the controller
Route(c) ==
    /\ ctrl = c /\ ~constructed
    /\ constructed' = TRUE
    /\ initDone' = FALSE
    /\ handlers' = CtorHandlers(c)
    /\ location' = IF c = "Rpc" /\ stored = "none" THEN "login" ELSE location
    /\ Commit(ControllerCtor(c, Client))
    /\ services' = NoServices /\ temp_list' = << >> /\ service_dict' = << >>
    /\ resolved' = {} /\ removals' = 0
    /\ EventReset /\ StreamReset /\ FileReset
    /\ UNCHANGED <<ctrl, stored, typed, authFailed, reloads, clicks>>
    /\ UNCHANGED uploadVars

\* $scope.init(). In VMController it first calls synchronousService, which the
\* controller does not inject: where no global of that name exists the call
\* throws and no slot is assigned.
ScopeInit(c) ==
    /\ ctrl = c /\ constructed /\ ~initDone
    /\ c \in {"Rpc", "Term", "Stats", "Files", "Tasks", "VM"}
    /\ initDone' = TRUE
    /\ \E resolves \in BOOLEAN :
          handlers' = IF c = "VM" /\ ~resolves
                      THEN handlers
                      ELSE handlers \cup InitHandlers(c)
    /\ UNCHANGED <<ctrl, constructed, location, stored, typed>>
    /\ UNCHANGED <<sockVars, dataVars, eventVars, streamVars, histVars, uploadVars>>

\* $scope.login of LoginController: the user submits the form
login_click ==
    /\ ctrl = "Login" /\ constructed /\ location = "view"
    /\ clicks < MaxClicks
    /\ \E creds \in {"good", "bad"} : typed' = creds
    /\ handlers' = AllSlots
    /\ Commit(connect(Client))
    /\ authFailed' = FALSE
    /\ clicks' = clicks + 1
    /\ UNCHANGED <<ctrl, constructed, initDone, location, stored>>
    /\ UNCHANGED <<dataVars, eventVars, streamVars>>
    /\ UNCHANGED <<resolved, removals, reloads, uploadVars>>

\* The transport opened: the session is Connected and onConnect is invoked
TransportOpened ==
    /\ constructed /\ sstate = "Connecting"
    /\ LET c1 == [Client EXCEPT !.shist = Enter(@, "Connected", "opened")]
           on == "onConnect" \in handlers
       IN  /\ Commit(IF on THEN onConnect(ctrl, c1) ELSE c1)
           /\ location' = IF on /\ OnConnectChecksUser(ctrl) /\ stored = "none"
                          THEN "login"
                          ELSE location
    /\ UNCHANGED <<ctrl, constructed, initDone, handlers, stored, typed>>
    /\ UNCHANGED <<dataVars, eventVars, streamVars>>
    /\ UNCHANGED <<resolved, removals, authFailed, reloads, clicks, uploadVars>>

\* The credentials of the handshake the session is waiting on
HandshakeCreds ==
    LET ls == SelectSeq(wire, LAMBDA f : f.kind = "login")
    IN  ls[Len(ls)].arg

\* The answer to the login handshake. Success carries a token, the session is
\* Ready and onLogin is invoked. Failure carries none and the session is
\* Disconnected; the client may report it through onLogin (LoginController
\* tests sock.token there).
AuthResponse ==
    /\ constructed /\ sstate = "Authenticating"
    /\ \E notify \in BOOLEAN :
        LET ok == Accepted(HandshakeCreds)
            tok == IF ok THEN "tok" ELSE "none"
            c1 == IF ok
                  THEN [Client EXCEPT !.token = "tok",
                                      !.shist = Enter(@, "Ready", "authSuccess")]
                  ELSE [Client EXCEPT !.token = "none",
                                      !.shist = Enter(@, "Disconnected", "authFailure")]
            on == "onLogin" \in handlers /\ (ok \/ notify)
            c2 == IF on THEN onLogin(ctrl, c1) ELSE c1
        IN  /\ c2.nextId <= MaxCalls + 1
            /\ Commit(c2)
            /\ stored' = IF on THEN OnLoginStored(ctrl, tok) ELSE stored
            /\ location' = IF on THEN OnLoginLocation(ctrl, tok) ELSE location
            /\ authFailed' = ~ok
            /\ handlers' = IF on THEN handlers \cup OnLoginHandlers(ctrl) ELSE handlers
            /\ item_list' = IF on /\ ctrl = "Events" THEN << >> ELSE item_list
    /\ UNCHANGED <<ctrl, constructed, initDone, typed>>
    /\ UNCHANGED <<scope_item_list, pending_tasks, chart, title, flows, thrown,
                   arrived, delivered>>
    /\ UNCHANGED <<dataVars, streamVars>>
    /\ UNCHANGED <<resolved, removals, reloads, clicks, uploadVars>>

\* The transport failed or closed: the session is Disconnected, its
\* StreamSessions are closed and onError is invoked. Outstanding PendingCalls
\* are left as they are.
TransportError ==
    /\ constructed
    /\ sstate \in {"Connecting", "Connected", "Authenticating", "Ready"}
    /\ LET does == IF "onError" \in handlers THEN OnErrorDoes(ctrl) ELSE "log"
           c1 == [Client EXCEPT !.shist = Enter(@, "Disconnected", "transportError"),
                                !.shells = StreamsLost(@)]
       IN  CASE does = "reload" ->
                  \* $route.reload(): the controller instance, its sock and its
                  \* data are dropped and the controller function runs again
                  /\ reloads < MaxReloads
                  /\ reloads' = reloads + 1
                  /\ constructed' = FALSE /\ initDone' = FALSE /\ handlers' = {}
                  /\ Commit([NewClient(c1) EXCEPT !.shist = c1.shist])
                  /\ services' = NoServices /\ temp_list' = << >>
                  /\ service_dict' = << >> /\ resolved' = {} /\ removals' = 0
                  /\ EventReset /\ StreamReset /\ FileReset
                  /\ UNCHANGED location
             [] does = "toLogin" ->
                  /\ location' = "login"
                  /\ Commit(c1)
                  /\ UNCHANGED <<constructed, initDone, handlers, reloads>>
                  /\ UNCHANGED <<dataVars, eventVars, streamVars, resolved, removals>>
             [] OTHER ->
                  /\ Commit(c1)
                  /\ UNCHANGED <<constructed, initDone, handlers, reloads, location>>
                  /\ UNCHANGED <<dataVars, eventVars, streamVars, resolved, removals>>
    /\ UNCHANGED <<ctrl, stored, typed>>
    /\ UNCHANGED <<authFailed, clicks, uploadVars>>

\* The tasks named by the task.created events received so far
CreatedTasks(evs) ==
    LET cs == SelectSeq(evs, LAMBDA e : e.name = <<"task", "created">>)
    IN  [i \in 1..Len(cs) |-> cs[i].args]

\* The results the server may return to a call, by the callback that takes
\* them: a list of services; the tasks in progress (none, or the ones
\* created); otherwise nothing the model looks at
ResultsFor(cb) ==
    CASE cb = "services" -> ServiceLists
      [] cb = "tasks" -> {<< >>, CreatedTasks(arrived)}
      [] OTHER -> {<< >>}

\* What the client sees of a response: the result or the error goes to the
\* call's callback; for a call without callback the response is discarded
\* unread
Seen(cb, outcome) == IF cb = "none" THEN "discarded" ELSE outcome

\* An inbound response frame answering call frame k of the wire, with a result
\* or an error. The PendingCall with the frame's id is removed and, for a
\* result, its callback is invoked; a frame that matches none is dropped.
InboundResponse ==
    /\ constructed /\ sstate = "Ready"
    /\ \E k \in 1..Len(wire) : \E outcome \in {"result", "error"} :
        LET f == wire[k]
            m == Matching(pending, f.id)
        IN  /\ f.kind = "call"
            /\ IF m = {}
               THEN UNCHANGED <<sockVars, dataVars, histVars, pending_tasks, chart>>
               ELSE LET i == CHOOSE x \in m : \A y \in m : x <= y
                        p == pending[i]
                        c1 == [Client EXCEPT !.pending = RemovePending(@, i)]
                        run == outcome = "result"
                    IN  \E svcs \in ResultsFor(p.cb) :
                        LET result == CASE p.cb \in {"services", "tasks"} -> svcs
                                        [] p.cb = "methods" -> MethodsOf(f.arg)
                                        [] OTHER -> << >>
                            c2 == IF run THEN CallbackCalls(p.cb, c1, result) ELSE c1
                            key == TempListKey(p.arg)
                        IN  /\ c2.nextId <= MaxCalls + 1
                            /\ Commit(c2)
                            /\ resolved' = resolved \cup
                                  {[frame |-> f.id, call |-> p.id,
                                    outcome |-> Seen(p.cb, outcome), cb |-> p.cb]}
                            /\ removals' = removals + 1
                            /\ services' = IF run /\ p.cb = "services"
                                           THEN [known |-> TRUE, list |-> result]
                                           ELSE services
                            /\ temp_list' =
                                  CASE run /\ p.cb = "services" ->
                                         [x \in { TempListKey(result[j]) : j \in DOMAIN result }
                                            |-> << >>]
                                    [] run /\ p.cb = "methods" ->
                                         [temp_list EXCEPT ![key] = @ \o result]
                                    [] OTHER -> temp_list
                            /\ service_dict' = IF run /\ p.cb = "methods"
                                               THEN Ext(service_dict, p.arg, key)
                                               ELSE service_dict
                            /\ pending_tasks' = IF run /\ p.cb = "tasks"
                                                THEN [known |-> TRUE, list |-> result]
                                                ELSE pending_tasks
                            /\ chart' = IF run /\ p.cb = "chart"
                                        THEN "rendered"
                                        ELSE chart
                            /\ cwd' = IF run /\ p.cb = "listing" THEN p.arg ELSE cwd
                            /\ current_dir_items' = IF run /\ p.cb = "listing"
                                                    THEN p.arg
                                                    ELSE current_dir_items
                            /\ cdup' = IF run /\ p.cb = "listing"
                                       THEN Append(cdup, p.arg)
                                       ELSE cdup
                            /\ UNCHANGED <<authFailed, reloads, clicks>>
    /\ UNCHANGED <<item_list, scope_item_list, title, flows, thrown, arrived, delivered>>
    /\ UNCHANGED <<pageVars, streamVars, uploadVars>>

\* The call a click in the controller's view issues, and its callback:
\* RpcController submitForm, TasksController #submit, VMController
\* #start-container / #stop-container (no callback)
ClickCall(c) ==
    CASE c = "Rpc" -> [method |-> "user", cb |-> "view"]
      [] c = "Tasks" -> [method |-> "task.submit", cb |-> "submitted"]
      [] OTHER -> [method |-> "task.submit", cb |-> "none"]

Click(c) ==
    /\ ctrl = c /\ constructed /\ location = "view"
    /\ c \in {"Rpc", "Tasks", "VM"}
    /\ clicks < MaxClicks
    /\ LET c1 == call(Client, ClickCall(c).method, 0, ClickCall(c).cb)
       IN  /\ c1.nextId <= MaxCalls + 1
           /\ Commit(c1)
    /\ clicks' = clicks + 1
    /\ UNCHANGED <<pageVars, dataVars, eventVars, streamVars>>
    /\ UNCHANGED <<resolved, removals, authFailed, reloads, uploadVars>>

-----------------------------------------------------------------------------
\* Inbound events and the controllers' sock.onEvent

\* The event names the server pushes
EventNames ==
    { <<"task", "created">>, <<"task", "sub", "created">>,
      <<"volume", "changed">>, <<"changed">>,
      <<"migration", "status">>, <<"statd", "cpu", "pulse">> }

\* The event names of the statistics pulses
PulseNames == { <<"statd", "cpu", "pulse">>, <<"statd", "mem", "pulse">> }

\* The data sources statd.output.get_data_sources lists
Sources == {"cpu"}

\* angular.toJson(args, 4): the text of args
ToJson(args) == <<"json", args>>

\* The data the controllers' onEvent handlers work on
EventData ==
    [item_list |-> item_list, scope_item_list |-> scope_item_list,
     pending_tasks |-> pending_tasks, flows |-> flows, thrown |-> thrown]

\* Mutant of onEvent: EventsController puts the new entry first
onEventUnshift(c, d, ev) ==
    CASE c = "Events" ->
            LET l == << [name |-> ev.name, args |-> ToJson(ev.args)] >> \o d.item_list
            IN  [d EXCEPT !.item_list = l, !.scope_item_list = l]
      [] c = "Tasks" /\ ev.name = <<"task", "created">> ->
            IF d.pending_tasks.known
            THEN [d EXCEPT !.pending_tasks.list = Append(@, ev.args)]
            ELSE [d EXCEPT !.thrown = @ + 1]
      [] c = "Stats" /\ ev.name = <<"statd", title, "pulse">> ->
            IF chart = "rendered"
            THEN [d EXCEPT !.flows = Append(@, ev.args)]
            ELSE [d EXCEPT !.thrown = @ + 1]
      [] OTHER -> d

\* sock.onEvent(name, args) of the controller.
\* EventsController: item_list.push(ctx) and $scope.item_list = item_list.
\* TasksController: task.created is pushed to $scope.pending_tasks, which is
\* undefined until the first task.query result (the other names it handles
\* only change table cells).
\* StatsController: the pulse of the source in #title goes to update_chart,
\* whose chart.flow needs the chart render_chart creates.
onEvent(c, d, ev) ==
    CASE c = "Events" ->
            LET l == Append(d.item_list, [name |-> ev.name, args |-> ToJson(ev.args)])
            IN  [d EXCEPT !.item_list = l, !.scope_item_list = l]
      [] c = "Tasks" /\ ev.name = <<"task", "created">> ->
            IF d.pending_tasks.known
            THEN [d EXCEPT !.pending_tasks.list = Append(@, ev.args)]
            ELSE [d EXCEPT !.thrown = @ + 1]
      [] c = "Stats" /\ ev.name = <<"statd", title, "pulse">> ->
            IF chart = "rendered"
            THEN [d EXCEPT !.flows = Append(@, ev.args)]
            ELSE [d EXCEPT !.thrown = @ + 1]
      [] OTHER -> d

\* n invocations of onEvent with the same event
RECURSIVE OnEventTimes(_, _, _, _)
OnEventTimes(c, d, ev, n) ==
    IF n = 0 THEN d ELSE OnEventTimes(c, onEvent(c, d, ev), ev, n - 1)

\* An inbound event frame {name, args}: sock.onEvent is invoked once for every
\* subscription whose pattern matches the name, before the next frame
InboundEvent(names) ==
    /\ constructed /\ sstate = "Ready"
    /\ Len(arrived) < MaxEvents
    /\ \E name \in names :
          LET ev == [name |-> name, args |-> Len(arrived) + 1]
              k == IF "onEvent" \in handlers THEN Len(MatchingSubs(subs, name)) ELSE 0
              d == OnEventTimes(ctrl, EventData, ev, k)
          IN  /\ arrived' = Append(arrived, ev)
              /\ delivered' = delivered \o [i \in 1..k |-> ev]
              /\ item_list' = d.item_list
              /\ scope_item_list' = d.scope_item_list
              /\ pending_tasks' = d.pending_tasks
              /\ flows' = d.flows
              /\ thrown' = d.thrown
    /\ UNCHANGED <<chart, title>>
    /\ UNCHANGED <<pageVars, sockVars, dataVars, streamVars, histVars, uploadVars>>

\* $scope.clearEvents() of EventsController: the list shown is emptied; the
\* item_list of onLogin keeps its entries and is shown again with the next
\* event
clearEvents ==
    /\ ctrl = "Events" /\ constructed /\ location = "view"
    /\ scope_item_list # << >>
    /\ scope_item_list' = << >>
    /\ UNCHANGED <<item_list, pending_tasks, chart, title, flows, thrown,
                   arrived, delivered>>
    /\ UNCHANGED <<pageVars, sockVars, dataVars, streamVars, histVars, uploadVars>>

\* Mutant of load_chart: a source that is already shown is not subscribed again
load_chartOnce(cs, name) ==
    IF name = title
    THEN call(cs, "stat.get_stats", name, "chart")
    ELSE call(subscribe(cs, <<"statd", name, "pulse">>),
              "stat.get_stats", name, "chart")

\* load_chart(name) of StatsController (it also sets #title to name)
load_chart(cs, name) ==
    call(subscribe(cs, <<"statd", name, "pulse">>), "stat.get_stats", name, "chart")

\* $scope.loadSource(source_name): a click on an entry of dataSource_list
loadSource_click ==
    /\ ctrl = "Stats" /\ constructed /\ initDone /\ location = "view"
    /\ clicks < MaxClicks
    /\ \E r \in resolved : r.cb = "sources" /\ r.outcome = "result"
    /\ \E source_name \in Sources :
          LET c1 == load_chart(Client, source_name)
          IN  /\ c1.nextId <= MaxCalls + 1
              /\ Commit(c1)
              /\ title' = source_name
    /\ clicks' = clicks + 1
    /\ UNCHANGED <<item_list, scope_item_list, pending_tasks, chart, flows, thrown,
                   arrived, delivered>>
    /\ UNCHANGED <<pageVars, dataVars, streamVars>>
    /\ UNCHANGED <<resolved, removals, authFailed, reloads, uploadVars>>

\* The click handler of #call: load_chart($("#title").text())
call_click ==
    /\ ctrl = "Stats" /\ constructed /\ initDone /\ location = "view"
    /\ clicks < MaxClicks
    /\ LET c1 == load_chart(Client, title)
       IN  /\ c1.nextId <= MaxCalls + 1
           /\ Commit(c1)
    /\ clicks' = clicks + 1
    /\ UNCHANGED <<pageVars, dataVars, eventVars, streamVars>>
    /\ UNCHANGED <<resolved, removals, authFailed, reloads, uploadVars>>

-----------------------------------------------------------------------------
\* StreamSessions and terminals

\* In a handler of VMController: whatever var conn (var term) holds when the
\* handler runs
Current == -1

\* The shells and containers a session can be opened to
Shells == {"/bin/sh"}
Containers == {"vm1"}

\* term.on('data', function (data) { conn.send(data); }) in conn.onOpen of
\* StreamSession s: TermController's conn is the local of this connect_term
\* call, VMController's is the controller's var conn
OnOpenSendsTo(c, s) == IF c = "VM" THEN Current ELSE s

\* conn.onData = ... in conn.onOpen of StreamSession s: the StreamSession whose
\* slot is assigned
OnOpenDataSlot(c, s) == IF c = "VM" THEN conn ELSE s

\* conn.onData = function (data) { term.write(data); } in the onOpen that
\* created terminal k: TermController's term is a local of that onOpen,
\* VMController's is the controller's var term
OnDataWrites(c, k) == IF c = "VM" THEN Current ELSE k

\* The number of the next payload
NextPayload == Len(emitted) + Len(received) + 1

\* The StreamSession s was opened: conn.onOpen creates the Terminal, wires it
\* to the session and opens it in #terminal
StreamOpened(s) ==
    /\ constructed /\ sstate = "Ready"
    /\ s \in 1..Len(shells) /\ shells[s].state = "Opening"
    /\ LET k == Len(terminals) + 1
           slot == OnOpenDataSlot(ctrl, s)
       IN  /\ terminals' = Append(terminals,
                                 [owner |-> s, sendsTo |-> OnOpenSendsTo(ctrl, s),
                                  attached |-> TRUE, destroyed |-> FALSE])
           /\ shells' = [i \in 1..Len(shells) |->
                            LET a == IF i = s
                                     THEN [shells[i] EXCEPT !.state = "Open"]
                                     ELSE shells[i]
                            IN  IF i = slot
                                THEN [a EXCEPT !.onData = OnDataWrites(ctrl, k)]
                                ELSE a]
           /\ term' = IF ctrl = "VM" THEN k ELSE term
    /\ UNCHANGED <<conn, emitted, forwarded, received, written>>
    /\ UNCHANGED <<shist, token, pending, nextId, wire, subs>>
    /\ UNCHANGED <<pageVars, dataVars, eventVars, histVars, uploadVars>>

\* A payload arrives from the remote end of the open StreamSession s and is
\* handed to its onData
RemoteData(s) ==
    /\ constructed /\ sstate = "Ready"
    /\ s \in 1..Len(shells) /\ shells[s].state = "Open"
    /\ NextPayload <= MaxPayloads
    /\ received' = Append(received, [stream |-> s, data |-> NextPayload])
    /\ written' =
          IF shells[s].onData = 0
          THEN written
          ELSE LET k == IF shells[s].onData = Current THEN term ELSE shells[s].onData
               IN  Append(written, [stream |-> s, term |-> k, data |-> NextPayload])
    /\ UNCHANGED <<terminals, conn, term, emitted, forwarded>>
    /\ UNCHANGED <<pageVars, sockVars, dataVars, eventVars, histVars, uploadVars>>

\* The user types into terminal k: its 'data' handler calls conn.send(data)
TermInput(k) ==
    /\ constructed /\ location = "view"
    /\ k \in 1..Len(terminals)
    /\ terminals[k].attached /\ ~terminals[k].destroyed
    /\ NextPayload <= MaxPayloads
    /\ emitted' = Append(emitted, [term |-> k, data |-> NextPayload])
    /\ LET target == IF terminals[k].sendsTo = Current
                     THEN conn
                     ELSE terminals[k].sendsTo
       IN  forwarded' =
              IF StreamSend(shells, target)
              THEN Append(forwarded,
                          [term |-> k, stream |-> target, data |-> NextPayload])
              ELSE forwarded
    /\ UNCHANGED <<terminals, conn, term, received, written>>
    /\ UNCHANGED <<pageVars, sockVars, dataVars, eventVars, histVars, uploadVars>>

\* $scope.loadShell(source_name) of TermController: #terminal is emptied and
\* connect_term(sock, source_name) opens another shell
loadShell_click ==
    /\ ctrl = "Term" /\ constructed /\ location = "view"
    /\ clicks < MaxClicks
    /\ \E r \in resolved : r.cb = "view" /\ r.outcome = "result"
    /\ \E source_name \in Shells :
          LET c1 == connect_term(Client, source_name)
          IN  /\ Len(c1.shells) <= MaxStreams
              /\ Commit(c1)
    /\ terminals' = [k \in 1..Len(terminals) |->
                       [terminals[k] EXCEPT !.attached = FALSE]]
    /\ clicks' = clicks + 1
    /\ UNCHANGED <<conn, term, emitted, forwarded, received, written>>
    /\ UNCHANGED <<pageVars, dataVars, eventVars>>
    /\ UNCHANGED <<resolved, removals, authFailed, reloads, uploadVars>>

\* A click on a container entry of VMController: the container's status is
\* asked for, an existing terminal is destroyed and its console disconnected,
\* and connect_term(sock, currentId) puts a new ContainerConsoleClient in conn
container_click ==
    /\ ctrl = "VM" /\ constructed /\ location = "view"
    /\ clicks < MaxClicks
    /\ \E vm \in Containers :
          LET c1 == call(Client, "containerd.management.get_status", vm, "view")
              c2 == IF term # 0
                    THEN [c1 EXCEPT !.shells = StreamDisconnect(@, conn)]
                    ELSE c1
              c3 == connect_term(c2, vm)
          IN  /\ c3.nextId <= MaxCalls + 1
              /\ Len(c3.shells) <= MaxStreams
              /\ Commit(c3)
              /\ conn' = IF Len(c3.shells) > Len(c2.shells) THEN Len(c3.shells) ELSE 0
    /\ terminals' = IF term # 0
                    THEN [terminals EXCEPT ![term].destroyed = TRUE]
                    ELSE terminals
    /\ clicks' = clicks + 1
    /\ UNCHANGED <<term, emitted, forwarded, received, written>>
    /\ UNCHANGED <<pageVars, dataVars, eventVars>>
    /\ UNCHANGED <<resolved, removals, authFailed, reloads, uploadVars>>

-----------------------------------------------------------------------------
\* FileBrowserController's directory listing

\* The folders a listing shows
Folders == {"a", "b"}

\* $scope.browseFolder(foldername): listDir(foldername, true), the path taken
\* relative to filebrowser:cwd as it is at the click. browseFolder exists once
\* listDir has run and the entries to click once a listing is shown.
browseFolder_click ==
    /\ ctrl = "Files" /\ constructed /\ location = "view"
    /\ current_dir_items # NoPath
    /\ clicks < MaxClicks
    /\ \E foldername \in Folders :
          LET c1 == listDir(Client, PathJoin(cwd, foldername))
          IN  /\ c1.nextId <= MaxCalls + 1
              /\ Commit(c1)
    /\ clicks' = clicks + 1
    /\ UNCHANGED <<pageVars, dataVars, eventVars, streamVars>>
    /\ UNCHANGED <<resolved, removals, authFailed, reloads, uploadVars>>

\* The #cdup click handlers in the order they were added, each with the path
\* of its callback: listDir of the parent unless the path is "/"
RECURSIVE CdupCalls(_, _)
CdupCalls(cs, paths) ==
    IF paths = << >>
    THEN cs
    ELSE CdupCalls(IF Head(paths) # << >>
                   THEN listDir(cs, Parent(Head(paths)))
                   ELSE cs,
                   Tail(paths))

\* A click on #cdup: every handler that was put on it runs
cdup_click ==
    /\ ctrl = "Files" /\ constructed /\ location = "view"
    /\ cdup # << >>
    /\ clicks < MaxClicks
    /\ LET c1 == CdupCalls(Client, cdup)
       IN  /\ c1.nextId <= MaxCalls + 1
           /\ Commit(c1)
    /\ clicks' = clicks + 1
    /\ UNCHANGED <<pageVars, dataVars, eventVars, streamVars>>
    /\ UNCHANGED <<resolved, removals, authFailed, reloads, uploadVars>>

-----------------------------------------------------------------------------
\* The ids of the tasks shown in the task list
TaskIds == {1, 2}

\* A click on a task's abort control: $scope.abortTask(task_id); without the
\* user's confirmation nothing is done
abortTask_click ==
    /\ ctrl = "Tasks" /\ constructed /\ location = "view"
    /\ clicks < MaxClicks
    /\ \E task_id \in TaskIds : \E confirmed \in BOOLEAN :
          LET c1 == IF confirmed THEN abortTask(Client, task_id) ELSE Client
          IN  /\ c1.nextId <= MaxCalls + 1
              /\ Commit(c1)
    /\ clicks' = clicks + 1
    /\ UNCHANGED <<pageVars, dataVars, eventVars, streamVars>>
    /\ UNCHANGED <<resolved, removals, authFailed, reloads, uploadVars>>

\* The page before the route instantiates the controller
SessionStart ==
    /\ stored \in {"none", "good", "bad"}
    /\ constructed = FALSE /\ initDone = FALSE
    /\ handlers = {} /\ location = "view" /\ typed = "none"
    /\ shist = << [state |-> "Disconnected", by |-> "new"] >>
    /\ token = "none" /\ pending = << >> /\ nextId = 1 /\ wire = << >>
    /\ subs = << >> /\ shells = << >>
    /\ services = NoServices /\ temp_list = << >> /\ service_dict = << >>
    /\ FileIdle
    /\ EventIdle /\ StreamIdle
    /\ resolved = {} /\ removals = 0 /\ attempts = 0 /\ rejected = 0
    /\ authFailed = FALSE /\ reloads = 0 /\ clicks = 0
    /\ UploadIdle

SessionInit == ctrl \in Controllers /\ SessionStart

SessionNext ==
    \/ \E c \in Controllers : Route(c)
    \/ \E c \in Controllers : ScopeInit(c)
    \/ login_click
    \/ TransportOpened
    \/ AuthResponse
    \/ TransportError
    \/ InboundResponse
    \/ \E c \in Controllers : Click(c)
    \/ abortTask_click

SpecSession == SessionInit /\ [][SessionNext]_vars

\* The controllers that subscribe to events in their onLogin
EventControllers == {"Events", "Tasks"}

EventsInit == SessionInit /\ ctrl \in EventControllers

EventsNext ==
    \/ \E c \in Controllers : Route(c)
    \/ \E c \in Controllers : ScopeInit(c)
    \/ TransportOpened
    \/ AuthResponse
    \/ TransportError
    \/ InboundResponse
    \/ InboundEvent(EventNames)
    \/ clearEvents

SpecEvents == EventsInit /\ [][EventsNext]_vars

\* StatsController, which subscribes on every load_chart
StatsInit == SessionInit /\ ctrl = "Stats"

StatsNext ==
    \/ \E c \in Controllers : Route(c)
    \/ \E c \in Controllers : ScopeInit(c)
    \/ TransportOpened
    \/ AuthResponse
    \/ TransportError
    \/ InboundResponse
    \/ InboundEvent(PulseNames)
    \/ loadSource_click
    \/ call_click

SpecStats == StatsInit /\ [][StatsNext]_vars

\* FileBrowserController and its listings
FilesInit == ctrl = "Files" /\ SessionStart

FilesNext ==
    \/ Route("Files")
    \/ ScopeInit("Files")
    \/ TransportOpened
    \/ AuthResponse
    \/ TransportError
    \/ InboundResponse
    \/ browseFolder_click
    \/ cdup_click

SpecFiles == FilesInit /\ [][FilesNext]_vars

\* The controllers that open a shell or a console
StreamControllers == {"Term", "VM"}

StreamInit == SessionInit /\ ctrl \in StreamControllers

StreamNext ==
    \/ \E c \in Controllers : Route(c)
    \/ \E c \in Controllers : ScopeInit(c)
    \/ TransportOpened
    \/ AuthResponse
    \/ TransportError
    \/ InboundResponse
    \/ \E s \in 1..MaxStreams : StreamOpened(s)
    \/ \E s \in 1..MaxStreams : RemoteData(s)
    \/ \E k \in 1..MaxStreams : TermInput(k)
    \/ loadShell_click
    \/ container_click

SpecStream == StreamInit /\ [][StreamNext]_vars

-----------------------------------------------------------------------------
\* Properties of the chunked upload

CeilDiv(a, b) == (a + b - 1) \div b

RECURSIVE SumLen(_)
SumLen(s) == IF s = << >> THEN 0 ELSE s[1].len + SumLen(Tail(s))

NonEmptyFrames(s) == SelectSeq(s, LAMBDA f : f.len > 0)
EmptyFrames(s) == SelectSeq(s, LAMBDA f : f.len = 0)

\* An upload whose reads all succeeded and whose last read has ended
CleanFinished(t) == tstate[t] = "finished" /\ readErrors[t] = 0

\* C1 (as claimed): for every file size S >= 0, a finished upload whose reads
\* all succeeded has sent exactly ceil(S/BUFSIZE) non-empty chunks, whose sizes
\* sum to S, followed by exactly one empty chunk, the terminal one.
C1_ChunkCountAllSizes ==
    \A t \in Transfers :
        CleanFinished(t) =>
            /\ Len(NonEmptyFrames(sent[t])) = CeilDiv(fileSize[t], BUFSIZE)
            /\ SumLen(sent[t]) = fileSize[t]
            /\ Len(EmptyFrames(sent[t])) = 1
            /\ sent[t][Len(sent[t])] = EmptyString

\* C2 (as claimed): the upload of a zero-byte file performs exactly one
\* fileconn.send in total, the empty terminal chunk, and never more than one.
C2_ZeroByteSingleSend ==
    \A t \in Transfers :
        (fileSize[t] = 0 /\ readErrors[t] = 0) =>
            /\ Len(sent[t]) <= 1
            /\ tstate[t] = "finished" => sent[t] = << EmptyString >>

\* C3: a transfer never has two chunk reads outstanding, and the read of a
\* chunk is outstanding only when every earlier chunk has been read and handed
\* to fileconn.send (the last frame sent ends where the outstanding read
\* starts), and never after the terminal chunk.
C3_OneChunkInFlight ==
    \A t \in Transfers :
        /\ Len(reads[t]) <= 1
        /\ \A i \in 1..Len(reads[t]) :
              LET r == reads[t][i]
                  n == Len(sent[t])
              IN  /\ tstate[t] = "sending"
                  /\ IF n = 0
                     THEN r.start = 0
                     ELSE /\ sent[t][n].kind # "string"
                          /\ sent[t][n].stop = r.start
                          /\ n = CeilDiv(r.start, BUFSIZE)

\* C3 witness: the second chunk is being read after the first was sent
C3_SecondChunkInFlight ==
    \E t \in Transfers :
        /\ Len(reads[t]) = 1 /\ Len(sent[t]) = 1
        /\ reads[t][1].start = BUFSIZE

ExpectedLens(size) ==
    [i \in 1..(CeilDiv(size, BUFSIZE) + 1) |->
        IF i <= CeilDiv(size, BUFSIZE)
        THEN Min(i * BUFSIZE, size) - (i - 1) * BUFSIZE
        ELSE 0]

IsPrefix(s, u) == Len(s) <= Len(u) /\ \A i \in 1..Len(s) : s[i] = u[i]

\* C11 (as claimed), for a non-empty file: once a chunk read of a transfer has
\* failed, nothing more is sent for that transfer: no data chunk follows the
\* failed read, no terminal chunk is sent, no further read is issued and the
\* transfer does not run to its end.
C11_NothingSentAfterFailedRead ==
    \A t \in Transfers :
        fileSize[t] > 0 =>
            /\ \A i \in 1..Len(sent[t]) :
                  sent[t][i].kind = "null" => i = Len(sent[t])
            /\ readErrors[t] > 0 => (reads[t] = << >> /\ tstate[t] # "finished")

\* C12: whatever the arguments, the blob sendBlob reads ends at or before
\* file.size: a stop beyond file.size is read as file.size, a missing or zero
\* stop is file.size, and a stop within the file is taken as given.
C12_StopClampedToFileSize ==
    probe.called =>
        /\ Len(probe.reads) = 1
        /\ LET r == probe.reads[1]
               b == probe.optStopByte
           IN  /\ r.stop <= probe.size
               /\ b > probe.size => r.stop = probe.size
               /\ b \in {Undefined, 0} => r.stop = probe.size
               /\ (b > 0 /\ b <= probe.size) => r.stop = b
               /\ Slice(probe.size, r.start, r.stop) <= probe.size

\* C12 witness: sendBlob was called with a stop beyond the end of a non-empty
\* file and read up to file.size
C12_StopBeyondEnd ==
    /\ probe.called /\ probe.size > 0
    /\ probe.optStopByte > probe.size
    /\ probe.reads[1].stop = probe.size

\* C16 (as claimed): under every interleaving of the reads of the uploads
\* started together, each transfer whose reads succeed is sent, on its own
\* FileClient, the chunks of its own file in order, and a finished one has got
\* all of them followed by its single terminal chunk.
C16_TransfersIndependent ==
    \A t \in Transfers :
        readErrors[t] = 0 =>
            LET lens == [i \in 1..Len(sent[t]) |-> sent[t][i].len]
            IN  /\ IsPrefix(lens, ExpectedLens(fileSize[t]))
                /\ tstate[t] = "finished" => lens = ExpectedLens(fileSize[t])

-----------------------------------------------------------------------------
\* Properties of the session

CallFrames(w) == SelectSeq(w, LAMBDA f : f.kind = "call")
LoginFrames(w) == SelectSeq(w, LAMBDA f : f.kind = "login")
PendingIds == { pending[i].id : i \in 1..Len(pending) }
ResolvedIds == { r.call : r \in resolved }
WireIds == { wire[k].id : k \in { x \in 1..Len(wire) : wire[x].kind = "call" } }

\* The service a discovery.get_methods call was issued for, by call id
ServiceOfCall(id) ==
    LET k == CHOOSE x \in 1..Len(wire) : wire[x].kind = "call" /\ wire[x].id = id
    IN  wire[k].arg

\* The services whose discovery.get_methods call was answered with a result
AnsweredServices ==
    { ServiceOfCall(r.call) :
        r \in { x \in resolved : x.cb = "methods" /\ x.outcome = "result" } }

\* C5: whatever the order in which the responses arrive, every response
\* resolves the call with its own id, no call is resolved twice, and
\* service_dict holds, for exactly the services whose discovery.get_methods
\* call was answered, the methods returned for that service; so once all are
\* answered it holds the methods of every service.
C5_ResponsesRoutedByCallId ==
    /\ \A r \in resolved : r.frame = r.call
    /\ Cardinality(ResolvedIds) = removals
    /\ ctrl = "Rpc" =>
          /\ DOMAIN service_dict = AnsweredServices
          /\ \A s \in DOMAIN service_dict : ServiceDictView(s) = MethodsOf(s)

\* C5 witness: of two discovery.get_methods calls outstanding together the
\* later one was answered first, and service_dict holds its methods while the
\* earlier call is still pending
C5_AnsweredOutOfOrder ==
    /\ ctrl = "Rpc" /\ services.known /\ Len(services.list) >= 2
    /\ \E i \in 1..Len(pending) : \E r \in resolved :
          /\ pending[i].cb = "methods" /\ r.cb = "methods"
          /\ r.outcome = "result" /\ pending[i].id < r.call
          /\ ServiceOfCall(r.call) \in DOMAIN service_dict
          /\ pending[i].arg \notin DOMAIN service_dict

\* C6: a call made while the session is not Ready fails at once with
\* NotReadyError: the step registers no PendingCall and puts no frame on the
\* transport; and it is not queued: a call frame goes on the transport only in
\* the step of a call that was accepted, so every frame on the transport
\* belongs to a PendingCall registered in Ready.
C6_CallOutsideReadyRejected ==
    [][ /\ (attempts' > attempts /\ StateOf(shist') # "Ready") =>
              /\ rejected' - rejected = attempts' - attempts
              /\ pending' = pending
              /\ wire' = wire
        /\ (constructed /\ constructed') =>
              /\ Len(CallFrames(wire')) - Len(CallFrames(wire))
                    = (attempts' - attempts) - (rejected' - rejected)
              /\ Len(pending') + removals' - Len(pending) - removals
                    = (attempts' - attempts) - (rejected' - rejected)
      ]_vars

\* C6 witness: TasksController's #submit or VMController's start/stop was
\* clicked before the login completed, and the call was rejected
C6_ClickBeforeReady ==
    /\ ctrl \in {"Tasks", "VM"}
    /\ sstate \in {"Connecting", "Connected", "Authenticating"}
    /\ clicks > 0 /\ rejected = clicks
    /\ pending = << >> /\ CallFrames(wire) = << >>

\* C7: after a refused login the session is Disconnected and holds no token,
\* every call made from then on is rejected with NotReadyError, and no call or
\* subscription of the controller's onLogin reaches the server or the tables.
C7_AuthFailureLeavesNotReady ==
    /\ [](authFailed =>
            /\ sstate = "Disconnected"
            /\ token = "none"
            /\ pending = << >> /\ subs = << >> /\ shells = << >>
            /\ CallFrames(wire) = << >>)
    /\ [][ (authFailed' /\ attempts' > attempts) =>
              /\ rejected' - rejected = attempts' - attempts
              /\ wire' = wire /\ pending' = pending
              /\ subs' = subs /\ shells' = shells ]_vars

\* C7 witness: the login was refused and calls issued afterwards (by onLogin
\* or by a click) were rejected
C7_CallsAfterAuthFailure ==
    /\ authFailed /\ ctrl \in {"Rpc", "Term", "Events", "Tasks"}
    /\ rejected > 0 /\ sstate = "Disconnected"

SessionStates ==
    {"Disconnected", "Connecting", "Connected", "Authenticating", "Ready"}

ChainSteps ==
    { <<"Disconnected", "Connecting", "connect">>,
      <<"Connecting", "Connected", "opened">>,
      <<"Connected", "Authenticating", "login">>,
      <<"Authenticating", "Ready", "authSuccess">>,
      <<"Authenticating", "Disconnected", "authFailure">> }
    \cup { <<st, "Disconnected", "transportError">> : st \in SessionStates }

\* C8: the session starts Disconnected and every state it enters follows the
\* chain: Connecting by connect(), Connected by the opened transport,
\* Authenticating by the login sent from Connected, Ready by an accepted login,
\* which leaves a token; a refused login and a transport error or close lead
\* to Disconnected. Every login handshake on the transport is one such entry
\* into Authenticating.
C8_SessionChain ==
    /\ shist[1].state = "Disconnected"
    /\ \A i \in 1..(Len(shist) - 1) :
          <<shist[i].state, shist[i + 1].state, shist[i + 1].by>> \in ChainSteps
    /\ sstate = "Ready" => token # "none"
    /\ constructed =>
          Len(LoginFrames(wire))
             = Cardinality({ i \in 1..Len(shist) : shist[i].state = "Authenticating" })

\* C8 witness: a session that went through the whole chain and then lost its
\* transport
C8_FullChainThenError ==
    [i \in 1..Len(shist) |-> shist[i].state]
        = << "Disconnected", "Connecting", "Connected", "Authenticating",
             "Ready", "Disconnected" >>

C10_PendingCallIdsUnique ==
    /\ \A i, j \in 1..Len(pending) : i # j => pending[i].id # pending[j].id
    /\ Cardinality(ResolvedIds) = removals
    /\ \A r \in resolved : r.frame = r.call
    /\ PendingIds \cap ResolvedIds = {}
    /\ PendingIds \cup ResolvedIds = WireIds
    /\ Cardinality(WireIds) = Len(CallFrames(wire))

\* C10 witness: several calls are outstanding after another was answered and
\* a further one was issued
C10_OutstandingAfterRemoval ==
    /\ Len(pending) >= 2 /\ removals >= 1
    /\ \E i \in 1..Len(pending) : \A r \in ResolvedIds : pending[i].id > r

\* C17: a call without result callback is registered as a PendingCall under
\* its own id like any other (every call frame on the transport belongs to a
\* PendingCall or to one that was removed, and no id is used twice), and the
\* response to it only removes that PendingCall: no call is issued, nothing
\* is stored, and every other PendingCall stays as it is.
C17_FireAndForgetDiscarded ==
    /\ [](/\ \A k \in 1..Len(wire) :
                wire[k].kind = "call" => wire[k].id \in PendingIds \cup ResolvedIds
          /\ Cardinality(WireIds) = Len(CallFrames(wire)))
    /\ [][ \A i \in 1..Len(pending) :
              ( /\ pending[i].cb = "none"
                /\ removals' = removals + 1
                /\ pending[i].id \notin { pending'[j].id : j \in 1..Len(pending') } )
              => /\ pending' = RemovePending(pending, i)
                 /\ wire' = wire /\ nextId' = nextId /\ subs' = subs
                 /\ services' = services /\ temp_list' = temp_list
                 /\ service_dict' = service_dict
                 /\ \E r \in resolved' :
                       /\ r.call = pending[i].id /\ r.frame = r.call
                       /\ resolved' = resolved \cup {r} ]_vars

\* C17 witness: VMController's start/stop call was answered while another of
\* its calls is still outstanding
C17_StartAnsweredStopPending ==
    /\ ctrl = "VM" /\ sstate = "Ready"
    /\ \E r \in resolved : r.cb = "none"
    /\ \E i \in 1..Len(pending) :
          pending[i].method = "task.submit" /\ pending[i].cb = "none"

\* C18: abortTask issues a task.abort call of its own naming the task id; the
\* step removes and resolves no PendingCall (the calls outstanding before are
\* all still outstanding after it), and every call is resolved only by the
\* response carrying its own id.
C18_AbortIsADistinctCall ==
    /\ [](\A r \in resolved : r.frame = r.call)
    /\ [][ (\E k \in (Len(wire) + 1)..Len(wire') : wire'[k].method = "task.abort")
            => /\ removals' = removals
               /\ resolved' = resolved
               /\ IsPrefix(pending, pending')
               /\ \A k \in (Len(wire) + 1)..Len(wire') :
                     /\ wire'[k].id \notin PendingIds \cup ResolvedIds
                     /\ wire'[k].method = "task.abort" => wire'[k].arg \in TaskIds ]_vars

\* C18 witness: the abort was issued while the task.submit call was
\* outstanding, the abort was answered and the task.submit call is still
\* pending
C18_SubmitOutlivesAbort ==
    /\ ctrl = "Tasks"
    /\ \E i \in 1..Len(pending) : \E k \in 1..Len(wire) :
          /\ pending[i].method = "task.submit"
          /\ wire[k].kind = "call" /\ wire[k].method = "task.abort"
          /\ pending[i].id < wire[k].id
          /\ wire[k].id \in ResolvedIds

-----------------------------------------------------------------------------
\* Properties of the event dispatch

EventsNamed(evs, names) == SelectSeq(evs, LAMBDA e : e.name \in names)

\* C13: matching is segment by segment and * stands for exactly one segment:
\* task.* matches task.created and not task.sub.created, *.changed matches
\* volume.changed and not changed. So TasksController, subscribed to task.*,
\* has its onEvent invoked exactly for the task.created events among those
\* that arrive, and EventsController, subscribed to *.changed and
\* migration.status, exactly for volume.changed and migration.status.
C13_SegmentWiseMatching ==
    /\ Matches(<<"task", "*">>, <<"task", "created">>)
    /\ ~Matches(<<"task", "*">>, <<"task", "sub", "created">>)
    /\ Matches(<<"*", "changed">>, <<"volume", "changed">>)
    /\ ~Matches(<<"*", "changed">>, <<"changed">>)
    /\ ctrl = "Tasks" =>
          delivered = EventsNamed(arrived, {<<"task", "created">>})
    /\ ctrl = "Events" =>
          delivered = EventsNamed(arrived, {<<"volume", "changed">>,
                                           <<"migration", "status">>})

\* C13 witness: TasksController is subscribed to task.*, task.created and
\* volume.changed have arrived and only task.created was handed to onEvent
C13_TaskCreatedOnly ==
    /\ ctrl = "Tasks" /\ <<"task", "*">> \in Range(subs)
    /\ \E i, j \in 1..Len(arrived) :
          /\ arrived[i].name = <<"task", "created">>
          /\ arrived[j].name = <<"volume", "changed">>
          /\ delivered = << arrived[i] >>

\* C14: an arriving event is handed to onEvent once for every subscription
\* whose pattern matches it, equal patterns counted separately; and every
\* load_chart the session accepts adds a subscription, also for a source that
\* is already subscribed.
C14_OneInvocationPerSubscription ==
    [][ /\ Len(arrived') = Len(arrived) + 1 =>
              LET ev == arrived'[Len(arrived')]
                  k == Cardinality({ i \in 1..Len(subs) : Matches(subs[i], ev.name) })
              IN  delivered' = delivered \o [i \in 1..k |-> ev]
        /\ constructed' =>
              Len(subs') = Len(SelectSeq(wire', LAMBDA f : f.method = "stat.get_stats"))
      ]_vars

\* C14 witness: the same source was loaded twice and one pulse was handed to
\* onEvent twice
C14_PulseDeliveredTwice ==
    /\ ctrl = "Stats"
    /\ \E i, j \in 1..Len(subs) : i # j /\ subs[i] = subs[j]
    /\ \E i, j \in 1..Len(delivered) : i # j /\ delivered[i] = delivered[j]

\* C15: EventsController's item_list holds one entry for every event that
\* arrived and matched a subscription, in the order of arrival: the entries
\* are exactly the matching events of the arrival sequence, none missing,
\* none twice, none out of place.
C15_ItemListInArrivalOrder ==
    ctrl = "Events" =>
        LET m == EventsNamed(arrived, {<<"volume", "changed">>,
                                       <<"migration", "status">>})
        IN  /\ Len(item_list) = Len(m)
            /\ \A i \in 1..Len(m) :
                  /\ item_list[i].name = m[i].name
                  /\ item_list[i].args = ToJson(m[i].args)
            /\ \A i, j \in 1..Len(item_list) :
                  i < j => item_list[i].args[2] < item_list[j].args[2]

\* C15 witness: two different matching events arrived one after the other
\* and item_list holds both
C15_TwoEventsListed ==
    /\ ctrl = "Events" /\ Len(item_list) = 2
    /\ item_list[1].name # item_list[2].name

-----------------------------------------------------------------------------
\* Properties of the StreamSessions

\* The terminal that the onOpen of StreamSession s created
TerminalOf(s) == CHOOSE k \in 1..Len(terminals) : terminals[k].owner = s

\* C19 (as claimed): while a StreamSession is Open, a payload its terminal
\* emits is sent on that session to the remote end, and a payload arriving on
\* it from the remote end is written to its terminal; each exactly once,
\* unchanged, in the order of emission and of arrival.
C19_PayloadsRelayedVerbatim ==
    [][ /\ Len(emitted') = Len(emitted) + 1 =>
              LET e == emitted'[Len(emitted')]
                  s == terminals[e.term].owner
              IN  shells[s].state = "Open" =>
                     forwarded' = Append(forwarded,
                                         [term |-> e.term, stream |-> s,
                                          data |-> e.data])
        /\ Len(received') = Len(received) + 1 =>
              LET r == received'[Len(received')]
              IN  written' = Append(written,
                                    [stream |-> r.stream,
                                     term |-> TerminalOf(r.stream),
                                     data |-> r.data])
      ]_vars

\* C20: when the session is lost every StreamSession that was not yet closed
\* becomes Closed and its closure is surfaced (or its controller is torn down
\* by the reload); outside Ready no StreamSession is open; and a payload is
\* sent on to the remote end only on a StreamSession that is Open, so none is
\* after the loss.
C20_StreamClosedWithSession ==
    [][ /\ sstate' # "Ready" =>
              \A i \in 1..Len(shells') :
                  /\ shells'[i].state = "Closed"
                  /\ (i <= Len(shells) /\ shells[i].state # "Closed" /\ constructed')
                        => shells'[i].surfaced
        /\ Len(forwarded') > Len(forwarded) =>
              /\ sstate = "Ready"
              /\ shells[forwarded'[Len(forwarded')].stream].state = "Open"
      ]_vars

\* C20 witness: the session of TermController was lost with its shell open,
\* the shell is Closed and surfaced, and what was typed afterwards was not
\* sent on
C20_InputAfterLossNotForwarded ==
    /\ sstate = "Disconnected"
    /\ \E i \in 1..Len(shells) : shells[i].state = "Closed" /\ shells[i].surfaced
    /\ \E j \in 1..Len(emitted) :
          \A f \in Range(forwarded) : f.data # emitted[j].data

\* C23: every sendBlob step with stop < file.size is followed by a read that
\* starts at that stop and ends strictly later; a transfer that is sending
\* eventually has sent its terminal chunk; and after the terminal chunk the
\* transfer has no read left and issues no read and no send.
C23_UploadTerminates ==
    /\ [][ \A t \in Transfers :
              /\ (reads'[t] # reads[t] /\ reads[t] # << >> /\ reads'[t] # << >>) =>
                    \A i \in 1..Len(reads[t]) : \A j \in 1..Len(reads'[t]) :
                        /\ reads[t][i].stop < fileSize[t]
                        /\ reads'[t][j].start = reads[t][i].stop
                        /\ reads'[t][j].stop > reads[t][i].stop
              /\ (reads'[t] # reads[t] /\ reads[t] # << >> /\ reads'[t] = << >>) =>
                    /\ reads[t][1].stop = fileSize[t]
                    /\ sent'[t][Len(sent'[t])] = EmptyString
              /\ tstate[t] = "finished" =>
                    (reads[t] = << >> /\ reads'[t] = << >> /\ sent'[t] = sent[t]
                     /\ tstate'[t] = "finished")
        ]_vars
    /\ \A t \in Transfers : (tstate[t] = "sending") ~> (tstate[t] = "finished")

\* C23 witness: a file of five half-buffers was uploaded to its end although
\* one of its reads failed
C23_FinishedAfterThreeReads ==
    \E t \in Transfers :
        /\ fileSize[t] = 5 * HalfBuf /\ tstate[t] = "finished"
        /\ readErrors[t] = 1 /\ reads[t] = << >>
        /\ Len(sent[t]) = 4 /\ sent[t][4] = EmptyString

-----------------------------------------------------------------------------
\* Properties of the controllers' reaction to the session's notifications

\* The step reports a transport failure to the controller's onError
FailureReported ==
    /\ constructed /\ "onError" \in handlers
    /\ Len(shist') = Len(shist) + 1
    /\ shist'[Len(shist')].by = "transportError"

\* C21 (as claimed): a session-wide failure reported through onError makes
\* the controller navigate to the login view.
C21_FailureLeadsToLogin ==
    [][ FailureReported => location' = "login" ]_vars

\* C22: LoginController changes sessionStorage only in the step in which the
\* login is answered with a token, to the credentials of the form, and
\* navigates away only then; the step in which a login is refused leaves
\* sessionStorage and the view as they were.
C22_CredentialsStoredOnSuccessOnly ==
    [][ ctrl = "Login" =>
          /\ stored' # stored =>
                (sstate = "Authenticating" /\ token' = "tok" /\ stored' = typed)
          /\ location' # location =>
                (sstate = "Authenticating" /\ token' = "tok" /\ location' = "next")
          /\ (sstate = "Authenticating" /\ sstate' = "Disconnected") =>
                (stored' = stored /\ location' = location)
      ]_vars

\* C22 witness: the login with the form's bad credentials was refused,
\* sessionStorage holds no credentials and the view is still the login page
C22_RefusedLoginStoresNothing ==
    /\ ctrl = "Login" /\ authFailed /\ typed = "bad"
    /\ \E i \in 1..Len(wire) : wire[i].kind = "login" /\ wire[i].arg = "bad"
    /\ stored = "none" /\ location = "view"

\* The transport-opened notification was delivered to the current sock
Opened == \E i \in 1..Len(shist) : shist[i].by = "opened"

\* C24 (as claimed): once the transport has opened and $scope.init has run, in
\* whichever order, the login handshake has been sent (nothing that happens
\* later sends it: sock.login is called only from onConnect).
C24_LoginSentOnceOpened ==
    (/\ constructed /\ ConnectsInCtor(ctrl) /\ Opened
     /\ initDone \/ ctrl = "Events")
        => \E i \in 1..Len(wire) : wire[i].kind = "login"

\* C25 (as claimed): a controller whose onConnect tests freenas:username never
\* sends a login handshake without stored credentials.
C25_NoLoginWithoutCredentials ==
    (constructed /\ OnConnectChecksUser(ctrl)) =>
        \A i \in 1..Len(wire) : wire[i].kind = "login" => wire[i].arg # "none"

-----------------------------------------------------------------------------
\* Properties of the controllers' own bookkeeping

\* The StreamSessions that are open
OpenStreams == { i \in 1..Len(shells) : shells[i].state = "Open" }

\* C26 (as claimed): VMController never has more than one container console
\* StreamSession open.
C26_OneConsoleAtATime ==
    ctrl = "VM" => Cardinality(OpenStreams) <= 1

\* C27 (as claimed): TermController never has more than one shell
\* StreamSession open.
C27_OneShellAtATime ==
    ctrl = "Term" => Cardinality(OpenStreams) <= 1

\* C28 (as claimed): in StatsController no pulse is handed to update_chart
\* while chart is undefined: no onEvent invocation ends with the TypeError of
\* chart.flow.
C28_NoPulseBeforeChart ==
    ctrl = "Stats" => thrown = 0

\* C29 (as claimed): in TasksController every task.created event handed to
\* onEvent leaves its task in $scope.pending_tasks.
C29_CreatedTaskListed ==
    ctrl = "Tasks" =>
        \A i \in 1..Len(delivered) :
            delivered[i].name = <<"task", "created">> =>
                \E j \in 1..Len(pending_tasks.list) :
                    pending_tasks.list[j] = delivered[i].args

\* The filesystem.list_dir calls sent, in order
ListDirCalls == SelectSeq(wire, LAMBDA f : f.kind = "call" /\ f.method = "filesystem.list_dir")

\* C30 (as claimed): once every filesystem.list_dir call has been answered
\* with its listing, filebrowser:cwd and the listing shown are those of the
\* path requested last.
C30_LastRequestedPathShown ==
    (/\ ctrl = "Files" /\ constructed /\ ListDirCalls # << >>
     /\ \A i \in 1..Len(pending) : pending[i].method # "filesystem.list_dir"
     /\ \A r \in resolved : r.cb = "listing" => r.outcome = "result")
        => /\ cwd = ListDirCalls[Len(ListDirCalls)].arg
           /\ current_dir_items = ListDirCalls[Len(ListDirCalls)].arg

\* The filesystem.list_dir calls the step puts on the transport
NewListDirCalls ==
    SubSeq(ListDirCalls', Len(ListDirCalls) + 1, Len(ListDirCalls'))

\* C31 (as claimed): a click on #cdup issues exactly one filesystem.list_dir
\* call, for the parent of the directory shown, and none when that directory
\* is "/".
C31_CdUpIssuesOneCall ==
    [][ (cdup_click /\ sstate = "Ready") =>
            IF current_dir_items = << >>
            THEN NewListDirCalls = << >>
            ELSE /\ Len(NewListDirCalls) = 1
                 /\ NewListDirCalls[1].arg = Parent(current_dir_items)
      ]_vars

\* C32 (as claimed): in EventsController the handling of an event adds the
\* entries of that event to the list shown and nothing else, so what
\* clearEvents removed from $scope.item_list does not come back.
C32_ClearedEventsStayCleared ==
    [][ (ctrl = "Events" /\ Len(arrived') = Len(arrived) + 1) =>
            LET ev == arrived'[Len(arrived')]
                k == Len(delivered') - Len(delivered)
            IN  scope_item_list' =
                    scope_item_list \o
                        [i \in 1..k |-> [name |-> ev.name, args |-> ToJson(ev.args)]]
      ]_vars

====
